---- MODULE Spec2Model ----
(***************************************************************************)
(* Inventory mutation core of the multi-warehouse ledger: the sale,        *)
(* purchase and transfer handlers of backend/app/api, the reconciliation   *)
(* script, and the warehouse-scoped queries.  Every call to the            *)
(* persistent store is one atomic step of the calling handler, so that     *)
(* concurrent callers interleave between a handler's reads and writes, and *)
(* every store call on the ledger or the log may fail.                     *)
(***************************************************************************)
EXTENDS Integers, Sequences, FiniteSets, TLC

\* ---------------------------------------------------------------- bounds
MaxOps == 2          \* calls started in one behaviour
MaxQty == 2          \* largest quantity of a request

\* ------------------------------------------------------- values and catalog
Null == "null"       \* Python None / SQL NULL for identifiers
NoNum == -1          \* Python None / SQL NULL for numbers, and "no data"

Callers == {"c1", "c2"}

WarehouseIds == {"W1", "W2"}
RequestWarehouseIds == WarehouseIds \cup {"WX"}
MAIN_WAREHOUSE_ID == "W1"

ProductIds == {"P1", "P2"}
RequestProductIds == ProductIds \cup {"PX"}

Products ==
  [p \in ProductIds |->
     CASE p = "P1" -> [retail_price |-> 8, cost_price |-> 5]
       [] p = "P2" -> [retail_price |-> NoNum, cost_price |-> 5]]

UnitPrices == {NoNum, 4, 6}
UnitCosts == {NoNum, 6}
Quantities == 1..MaxQty
SentQuantities == (-1)..MaxQty   \* quantities of a request body or CSV row as sent

UserContext ==
  { [user_id |-> "admin", role |-> "admin", warehouse_id |-> Null],
    [user_id |-> "partner1", role |-> "partner", warehouse_id |-> "W1"],
    [user_id |-> "partner0", role |-> "partner", warehouse_id |-> Null] }

ScriptUser == [user_id |-> Null, role |-> "script", warehouse_id |-> Null]

TransactionType == {"SALE", "RESTOCK", "TRANSFER_OUT", "TRANSFER_IN", "ADJUSTMENT"}

VARIABLES
  inventory_items,  \* the ledger rows: (warehouse, product) -> quantity_on_hand
  transactions,     \* the transaction log, oldest first
  pc,               \* per caller: the store call its handler makes next
  req,              \* per caller: the request being served
  loc,              \* per caller: the handler's local variables
  last,             \* the call that returned in the latest step, if any
  nOps,             \* calls started so far
  storageFailed,    \* some store call has failed
  seen              \* the latest listing answered since the store last changed

vars == <<inventory_items, transactions, pc, req, loc, last, nOps, storageFailed, seen>>

NoReq == [op |-> "none", user |-> ScriptUser, warehouse_id |-> Null,
          to_warehouse_id |-> Null, product_id |-> Null, quantity |-> 0,
          unit_price |-> NoNum]

EmptyLedger == [k \in {} |-> 0]

NoLoc == [current_stock |-> NoNum, dest_stock |-> NoNum, final_unit_price |-> NoNum,
          out_id |-> NoNum, wrote |-> {}, pre_inv |-> EmptyLedger, pre_log |-> <<>>,
          items |-> <<>>, total |-> 0, results |-> <<>>]

NoResp == [status |-> 0, detail |-> "", new_stock_level |-> NoNum, unit_price |-> NoNum,
           transaction_id |-> NoNum, transfer_in_id |-> NoNum,
           items |-> <<>>, total |-> 0, low_stock_count |-> 0, results |-> <<>>]

ErrorResp(code) == [NoResp EXCEPT !.status = code]

\* HTTPException(status_code = code, detail = detail)
ErrorDetail(code, detail) == [NoResp EXCEPT !.status = code, !.detail = detail]

NoLast == [req |-> NoReq, resp |-> NoResp, wrote |-> {},
           pre_inv |-> EmptyLedger, pre_log |-> <<>>]

NoSeen == [req |-> NoReq, resp |-> NoResp, again |-> FALSE]

\* ------------------------------------------------------------ the store
HasRow(inv, w, p) == <<w, p>> \in DOMAIN inv

\* select quantity_on_hand of the row of (w, p); NoNum when there is no row
Row(w, p) == IF HasRow(inventory_items, w, p) THEN inventory_items[<<w, p>>] ELSE NoNum

\* Mutant of the update: a row that reaches 0 is dropped.
UpdateRowDropEmpty(inv, w, p, q) ==
  IF q = 0 THEN [k \in DOMAIN inv \ {<<w, p>>} |-> inv[k]]
  ELSE [inv EXCEPT ![<<w, p>>] = q]

\* update ... set quantity_on_hand = q where id = the row of (w, p)
UpdateRow(inv, w, p, q) == [inv EXCEPT ![<<w, p>>] = q]

\* insert a row for (w, p): the row of the pair, or a second row beside it
\* when the table already holds one
InsertRow(inv, w, p, q) ==
  LET id == IF HasRow(inv, w, p) THEN <<w, p, "second">> ELSE <<w, p>>
  IN [k \in DOMAIN inv \cup {id} |-> IF k = id THEN q ELSE inv[k]]

\* Mutant of the row identity: the store accepts a second row for a pair.
InsertConflictNever(w, p) == FALSE

\* (warehouse_id, product_id) is the identity of a ledger row: an insert for
\* a pair that already has a row is refused by the store.
InsertConflict(w, p) == HasRow(inventory_items, w, p)

\* Mutant of the transaction row: source and destination are swapped.
TransactionSwapped(type, p, from, to, q, price, by) ==
  [transaction_type |-> type, product_id |-> p, from_warehouse_id |-> to,
   to_warehouse_id |-> from, quantity |-> q, unit_price |-> price, created_by |-> by]

Transaction(type, p, from, to, q, price, by) ==
  [transaction_type |-> type, product_id |-> p, from_warehouse_id |-> from,
   to_warehouse_id |-> to, quantity |-> q, unit_price |-> price, created_by |-> by]

\* Mutant of the decrement: one unit leaves whatever the quantity.
DecrementedByOne(current, quantity) == current - 1

\* Quantity written by a sale or to the source of a transfer
Decremented(current, quantity) == current - quantity

\* Mutant of the increment: a row that exists keeps its quantity.
IncrementedKeep(current, quantity) == IF current # NoNum THEN current ELSE quantity

\* Mutant of the increment: the quantity read is dropped.
IncrementedOverwrite(current, quantity) == quantity

\* Quantity written by "create if absent, else increment"
Incremented(current, quantity) ==
  IF current # NoNum THEN current + quantity ELSE quantity

\* ---------------------------------------------------------- initial states
\* The store as a run of earlier, completed admin purchases left it: empty,
\* or stocked with their rows and their RESTOCK transactions.
Stocked(s, w, p, q) ==
  [inv |-> IF HasRow(s.inv, w, p)
           THEN UpdateRow(s.inv, w, p, Incremented(s.inv[<<w, p>>], q))
           ELSE InsertRow(s.inv, w, p, Incremented(NoNum, q)),
   log |-> Append(s.log, Transaction("RESTOCK", p, Null, w, q,
                                     Products[p].cost_price, "admin"))]

Unstocked == [inv |-> EmptyLedger, log |-> <<>>]

Seeds ==
  { Unstocked,
    Stocked(Unstocked, "W1", "P1", 2),
    Stocked(Stocked(Unstocked, "W1", "P1", 2), "W2", "P1", 1),
    Stocked(Stocked(Unstocked, "W1", "P1", 2), "W1", "P1", 2) }

Init ==
  /\ \E s \in Seeds : inventory_items = s.inv /\ transactions = s.log
  /\ pc = [c \in Callers |-> "idle"]
  /\ req = [c \in Callers |-> NoReq]
  /\ loc = [c \in Callers |-> NoLoc]
  /\ last = NoLast
  /\ nOps = 0
  /\ storageFailed = FALSE
  /\ seen = NoSeen

\* ------------------------------------------------------- access policy
\* Mutant of the access rule: everybody passes.
can_access_all(user, warehouse_id) == TRUE

\* Mutant of the access rule: any partner with a warehouse passes.
can_access_assigned(user, warehouse_id) ==
  ~(user.role # "admin" /\ user.warehouse_id = Null)

\* Mutant of the access rule: a user without a warehouse is not compared.
can_access_unassigned(user, warehouse_id) ==
  ~(user.role # "admin" /\ user.warehouse_id # Null
                        /\ user.warehouse_id # warehouse_id)

can_access(user, warehouse_id) ==
  ~(user.role # "admin" /\ user.warehouse_id # warehouse_id)

\* Mutant of the admin rule: any authenticated user passes.
require_login(user) == user.role \in {"admin", "partner"}

require_admin(user) == user.role = "admin"

\* --------------------------------------------------- call bookkeeping
ListingOps == {"list_inventory", "list_all_inventory", "list_transactions"}

\* What an observer of the listings keeps when caller c, whose locals become
\* l, answers request r with resp: the latest listing answered with 200, and
\* whether it repeated the one before; forgotten when the step writes to the
\* ledger or the log.
Observe(c, r, resp, l) ==
  seen' = IF l.wrote # loc[c].wrote THEN NoSeen
          ELSE IF r.op \in ListingOps /\ resp.status = 200
          THEN [req |-> r, resp |-> resp, again |-> seen.req = r]
          ELSE seen

\* The handler of caller c answers request r with resp; l holds its locals.
Return(c, r, resp, l) ==
  /\ pc' = [pc EXCEPT ![c] = "idle"]
  /\ req' = [req EXCEPT ![c] = NoReq]
  /\ loc' = [loc EXCEPT ![c] = NoLoc]
  /\ last' = [req |-> r, resp |-> resp, wrote |-> l.wrote,
              pre_inv |-> l.pre_inv, pre_log |-> l.pre_log]
  /\ Observe(c, r, resp, l)

\* An HTTPException raised before the handler has touched the ledger.
Reject(c, r, code) ==
  /\ Return(c, r, ErrorResp(code),
            [NoLoc EXCEPT !.pre_inv = inventory_items, !.pre_log = transactions])
  /\ UNCHANGED <<inventory_items, transactions, storageFailed>>

\* An answer given before the handler has read the ledger or the log.
Respond(c, r, resp) ==
  /\ Return(c, r, resp,
            [NoLoc EXCEPT !.pre_inv = inventory_items, !.pre_log = transactions])
  /\ UNCHANGED <<inventory_items, transactions, storageFailed>>

\* The same, with the detail the caller is told.
RejectFor(c, r, code, detail) ==
  /\ Return(c, r, ErrorDetail(code, detail),
            [NoLoc EXCEPT !.pre_inv = inventory_items, !.pre_log = transactions])
  /\ UNCHANGED <<inventory_items, transactions, storageFailed>>

\* The handler passed its checks and goes on to the store call at label.
Proceed(c, r, label, price) ==
  /\ pc' = [pc EXCEPT ![c] = label]
  /\ req' = [req EXCEPT ![c] = r]
  /\ loc' = [loc EXCEPT ![c] = [NoLoc EXCEPT !.final_unit_price = price,
                                              !.pre_inv = inventory_items,
                                              !.pre_log = transactions]]
  /\ last' = NoLast
  /\ UNCHANGED <<inventory_items, transactions, storageFailed, seen>>

\* Mutant of the failure path: the ledger is put back as the call found it.
FailCompensate(c) ==
  /\ Return(c, req[c], ErrorResp(500), loc[c])
  /\ storageFailed' = TRUE
  /\ inventory_items' = loc[c].pre_inv
  /\ UNCHANGED <<transactions, nOps>>

\* Mutant of the failure path: the log is put back as the call found it.
FailRollback(c) ==
  /\ Return(c, req[c], ErrorResp(500), loc[c])
  /\ storageFailed' = TRUE
  /\ transactions' = loc[c].pre_log
  /\ UNCHANGED <<inventory_items, nOps>>

\* A store call raised: the handler's except clause turns it into a 500.
Fail(c) ==
  /\ Return(c, req[c], ErrorResp(500), loc[c])
  /\ storageFailed' = TRUE
  /\ UNCHANGED <<inventory_items, transactions, nOps>>

\* An HTTPException raised by a check that follows a ledger read.
Refuse(c, code) ==
  /\ Return(c, req[c], ErrorResp(code), loc[c])
  /\ UNCHANGED <<inventory_items, transactions, nOps, storageFailed>>

\* The same, with the detail the caller is told.
RefuseFor(c, code, detail) ==
  /\ Return(c, req[c], ErrorDetail(code, detail), loc[c])
  /\ UNCHANGED <<inventory_items, transactions, nOps, storageFailed>>

Goto(c, label, l) ==
  /\ pc' = [pc EXCEPT ![c] = label]
  /\ loc' = [loc EXCEPT ![c] = l]
  /\ last' = NoLast
  /\ Observe(c, req[c], NoResp, l)
  /\ UNCHANGED <<req, nOps, storageFailed>>

\* The answer of the latest call is on its way to the caller.
Answering == last # NoLast

CanStart(c) == pc[c] = "idle" /\ nOps < MaxOps /\ ~Answering

At(c, label) == pc[c] = label /\ ~Answering

\* The answer reaches the caller.
Deliver ==
  /\ Answering
  /\ last' = NoLast
  /\ UNCHANGED <<inventory_items, transactions, pc, req, loc, nOps, storageFailed, seen>>

\* ------------------------------------------------- request validation
\* Mutant of the quantity rule: every integer passes.
ValidQuantityAny(quantity) == TRUE

\* quantity: int = Field(..., gt=0); the scripts keep a row when qty > 0
ValidQuantity(quantity) == quantity > 0

\* The request body fails validation: the framework answers 422 and the
\* handler is not entered.
Unprocessable(c, r) == Reject(c, r, 422)

\* ------------------------------------------------------------- sale
SaleRequest ==
  [op : {"sale"}, user : UserContext, warehouse_id : RequestWarehouseIds,
   to_warehouse_id : {Null}, product_id : RequestProductIds,
   quantity : Quantities, unit_price : UnitPrices]

\* Mutant of the price rule: the request's unit_price is ignored.
FinalUnitPriceRetail(unit_price, product) == product.retail_price

FinalUnitPrice(unit_price, product) ==
  IF unit_price = NoNum THEN product.retail_price ELSE unit_price

\* Mutant of the margin guard: the comparison is inverted.
BelowCostInverted(price, product) ==
  price # NoNum /\ product.cost_price # NoNum /\ price > product.cost_price

BelowCost(price, product) ==
  price # NoNum /\ product.cost_price # NoNum /\ price < product.cost_price

\* Mutants of the stock guard: it only asks for some stock; it lets one
\* unit too many through.
InsufficientStockNone(current_stock, quantity) == current_stock < 1

InsufficientStockOffByOne(current_stock, quantity) == current_stock + 1 < quantity

InsufficientStock(current_stock, quantity) == current_stock < quantity

\* sales.py 34-71: access, warehouse, product and margin checks
record_sale(c, Requests) ==
  /\ CanStart(c)
  /\ nOps' = nOps + 1
  /\ \E sale \in Requests :
       IF ~ValidQuantity(sale.quantity) THEN Unprocessable(c, sale)
       ELSE IF ~can_access(sale.user, sale.warehouse_id)
       THEN RejectFor(c, sale, 403, "You can only record sales for your own warehouse")
       ELSE IF sale.warehouse_id \notin WarehouseIds
       THEN RejectFor(c, sale, 404, "Warehouse not found")
       ELSE IF sale.product_id \notin ProductIds
       THEN RejectFor(c, sale, 404, "Product not found")
       ELSE LET final_unit_price == FinalUnitPrice(sale.unit_price, Products[sale.product_id])
            IN IF BelowCost(final_unit_price, Products[sale.product_id])
               THEN RejectFor(c, sale, 400, "Sale price cannot be below cost")
               ELSE Proceed(c, sale, "sale_select", final_unit_price)

\* sales.py 73-92: read the row, "not in this warehouse" and stock guard
sale_select(c) ==
  /\ At(c, "sale_select")
  /\ \/ Fail(c)
     \/ LET inventory == Row(req[c].warehouse_id, req[c].product_id)
        IN IF inventory = NoNum
           THEN RefuseFor(c, 400, "Product not found in this warehouse")
           ELSE IF InsufficientStock(inventory, req[c].quantity)
           THEN RefuseFor(c, 400, "Insufficient stock")
           ELSE /\ Goto(c, "sale_update", [loc[c] EXCEPT !.current_stock = inventory])
                /\ UNCHANGED <<inventory_items, transactions>>

\* sales.py 95-100: write current_stock - quantity
sale_update(c) ==
  /\ At(c, "sale_update")
  /\ \/ Fail(c)
     \/ /\ inventory_items' = UpdateRow(inventory_items, req[c].warehouse_id, req[c].product_id,
                                        Decremented(loc[c].current_stock, req[c].quantity))
        /\ Goto(c, "sale_insert", [loc[c] EXCEPT !.wrote = @ \cup {"ledger"}])
        /\ UNCHANGED transactions

\* sales.py 102-123: append the SALE transaction and answer
sale_insert(c) ==
  /\ At(c, "sale_insert")
  /\ \/ Fail(c)
     \/ /\ transactions' = Append(transactions,
             Transaction("SALE", req[c].product_id, req[c].warehouse_id, Null,
                         req[c].quantity, loc[c].final_unit_price, req[c].user.user_id))
        /\ Return(c, req[c],
                  [NoResp EXCEPT !.status = 200,
                                 !.transaction_id = Len(transactions) + 1,
                                 !.unit_price = loc[c].final_unit_price,
                                 !.new_stock_level =
                                    Decremented(loc[c].current_stock, req[c].quantity)],
                  [loc[c] EXCEPT !.wrote = @ \cup {"log"}])
        /\ UNCHANGED <<inventory_items, nOps, storageFailed>>

\* ---------------------------------------------------------- purchase
\* unit_price carries the request's unit_cost
PurchaseRequest ==
  [op : {"purchase"}, user : UserContext, warehouse_id : RequestWarehouseIds,
   to_warehouse_id : {Null}, product_id : RequestProductIds,
   quantity : Quantities, unit_price : UnitCosts]

\* Mutant of the cost rule: the request's unit_cost is ignored.
FinalUnitCostCatalog(unit_cost, product) == product.cost_price

FinalUnitCost(unit_cost, product) ==
  IF unit_cost = NoNum THEN product.cost_price ELSE unit_cost

\* The write of "create if absent, else increment", decided by the earlier
\* read: an update of the row read, or an insert of a new row.
UpsertWrite(c, w, p, current, quantity) ==
  IF current # NoNum
  THEN inventory_items' = UpdateRow(inventory_items, w, p, Incremented(current, quantity))
  ELSE /\ ~InsertConflict(w, p)
       /\ inventory_items' = InsertRow(inventory_items, w, p, Incremented(current, quantity))

\* purchases.py 35-61: admin, warehouse and product checks, final cost
record_purchase(c, Requests) ==
  /\ CanStart(c)
  /\ nOps' = nOps + 1
  /\ \E purchase \in Requests :
       IF ~ValidQuantity(purchase.quantity) THEN Unprocessable(c, purchase)
       ELSE IF purchase.user.role # "admin" THEN Reject(c, purchase, 403)
       ELSE IF purchase.warehouse_id \notin WarehouseIds THEN Reject(c, purchase, 404)
       ELSE IF purchase.product_id \notin ProductIds THEN Reject(c, purchase, 404)
       ELSE Proceed(c, purchase, "purchase_select",
                    FinalUnitCost(purchase.unit_price, Products[purchase.product_id]))

\* purchases.py 65-71: read the row
purchase_select(c) ==
  /\ At(c, "purchase_select")
  /\ \/ Fail(c)
     \/ /\ Goto(c, "purchase_write",
                [loc[c] EXCEPT !.current_stock = Row(req[c].warehouse_id, req[c].product_id)])
        /\ UNCHANGED <<inventory_items, transactions>>

\* purchases.py 72-87: update the row read, or insert a new one
purchase_write(c) ==
  /\ At(c, "purchase_write")
  /\ \/ Fail(c)
     \/ /\ UpsertWrite(c, req[c].warehouse_id, req[c].product_id,
                       loc[c].current_stock, req[c].quantity)
        /\ Goto(c, "purchase_insert", [loc[c] EXCEPT !.wrote = @ \cup {"ledger"}])
        /\ UNCHANGED transactions

\* purchases.py 89-110: append the RESTOCK transaction and answer
purchase_insert(c) ==
  /\ At(c, "purchase_insert")
  /\ \/ Fail(c)
     \/ /\ transactions' = Append(transactions,
             Transaction("RESTOCK", req[c].product_id, Null, req[c].warehouse_id,
                         req[c].quantity, loc[c].final_unit_price, req[c].user.user_id))
        /\ Return(c, req[c],
                  [NoResp EXCEPT !.status = 200,
                                 !.transaction_id = Len(transactions) + 1,
                                 !.unit_price = loc[c].final_unit_price,
                                 !.new_stock_level =
                                    Incremented(loc[c].current_stock, req[c].quantity)],
                  [loc[c] EXCEPT !.wrote = @ \cup {"log"}])
        /\ UNCHANGED <<inventory_items, nOps, storageFailed>>

\* ---------------------------------------------------------- transfer
TransferRequest ==
  [op : {"transfer"}, user : UserContext, warehouse_id : RequestWarehouseIds,
   to_warehouse_id : RequestWarehouseIds, product_id : RequestProductIds,
   quantity : Quantities, unit_price : {NoNum}]

\* transfers.py 17-62: require_admin, both warehouses, product
\* (warehouse_id is the request's from_warehouse_id)
create_transfer(c, Requests) ==
  /\ CanStart(c)
  /\ nOps' = nOps + 1
  /\ \E transfer \in Requests :
       IF ~require_admin(transfer.user) THEN Reject(c, transfer, 403)
       ELSE IF ~ValidQuantity(transfer.quantity) THEN Unprocessable(c, transfer)
       ELSE IF transfer.warehouse_id \notin WarehouseIds THEN Reject(c, transfer, 404)
       ELSE IF transfer.to_warehouse_id \notin WarehouseIds THEN Reject(c, transfer, 404)
       ELSE IF transfer.product_id \notin ProductIds THEN Reject(c, transfer, 404)
       ELSE Proceed(c, transfer, "transfer_select", NoNum)

\* transfers.py 63-82: read the source row, "not in source" and stock guard
transfer_select(c) ==
  /\ At(c, "transfer_select")
  /\ \/ Fail(c)
     \/ LET source_inventory == Row(req[c].warehouse_id, req[c].product_id)
        IN IF source_inventory = NoNum
              \/ InsufficientStock(source_inventory, req[c].quantity)
           THEN Refuse(c, 400)
           ELSE /\ Goto(c, "transfer_decrement",
                        [loc[c] EXCEPT !.current_stock = source_inventory])
                /\ UNCHANGED <<inventory_items, transactions>>

\* Mutant of the transfer: the source decrement is left out, the destination
\* is written first.
transfer_decrement_later(c) ==
  /\ At(c, "transfer_decrement")
  /\ \/ Fail(c)
     \/ /\ Goto(c, "transfer_dest_select", [loc[c] EXCEPT !.wrote = @ \cup {"source"}])
        /\ UNCHANGED <<inventory_items, transactions>>

\* transfers.py 89-95: write current_stock - quantity to the source row
transfer_decrement(c) ==
  /\ At(c, "transfer_decrement")
  /\ \/ Fail(c)
     \/ /\ inventory_items' = UpdateRow(inventory_items, req[c].warehouse_id, req[c].product_id,
                                        Decremented(loc[c].current_stock, req[c].quantity))
        /\ Goto(c, "transfer_dest_select", [loc[c] EXCEPT !.wrote = @ \cup {"source"}])
        /\ UNCHANGED transactions

\* Mutant of the destination read: when the destination is the source, the
\* quantity read before the decrement is used again.
transfer_dest_select_stale(c) ==
  /\ At(c, "transfer_dest_select")
  /\ \/ Fail(c)
     \/ /\ Goto(c, "transfer_dest_write",
                [loc[c] EXCEPT !.dest_stock =
                   IF req[c].to_warehouse_id = req[c].warehouse_id
                   THEN loc[c].current_stock
                   ELSE Row(req[c].to_warehouse_id, req[c].product_id)])
        /\ UNCHANGED <<inventory_items, transactions>>

\* transfers.py 97-104: read the destination row
transfer_dest_select(c) ==
  /\ At(c, "transfer_dest_select")
  /\ \/ Fail(c)
     \/ /\ Goto(c, "transfer_dest_write",
                [loc[c] EXCEPT !.dest_stock = Row(req[c].to_warehouse_id, req[c].product_id)])
        /\ UNCHANGED <<inventory_items, transactions>>

\* transfers.py 106-120: update the destination row read, or insert one
transfer_dest_write(c) ==
  /\ At(c, "transfer_dest_write")
  /\ \/ Fail(c)
     \/ /\ UpsertWrite(c, req[c].to_warehouse_id, req[c].product_id,
                       loc[c].dest_stock, req[c].quantity)
        /\ Goto(c, "transfer_out", [loc[c] EXCEPT !.wrote = @ \cup {"dest"}])
        /\ UNCHANGED transactions

\* transfers.py 122-131: append the TRANSFER_OUT transaction
transfer_out(c) ==
  /\ At(c, "transfer_out")
  /\ \/ Fail(c)
     \/ /\ transactions' = Append(transactions,
             Transaction("TRANSFER_OUT", req[c].product_id, req[c].warehouse_id,
                         req[c].to_warehouse_id, req[c].quantity, NoNum,
                         req[c].user.user_id))
        /\ Goto(c, "transfer_in", [loc[c] EXCEPT !.wrote = @ \cup {"out"},
                                                 !.out_id = Len(transactions) + 1])
        /\ UNCHANGED inventory_items

\* transfers.py 133-153: append the TRANSFER_IN transaction and answer
transfer_in(c) ==
  /\ At(c, "transfer_in")
  /\ \/ Fail(c)
     \/ /\ transactions' = Append(transactions,
             Transaction("TRANSFER_IN", req[c].product_id, req[c].warehouse_id,
                         req[c].to_warehouse_id, req[c].quantity, NoNum,
                         req[c].user.user_id))
        /\ Return(c, req[c],
                  [NoResp EXCEPT !.status = 200,
                                 !.transaction_id = loc[c].out_id,
                                 !.transfer_in_id = Len(transactions) + 1],
                  [loc[c] EXCEPT !.wrote = @ \cup {"in"}])
        /\ UNCHANGED <<inventory_items, nOps, storageFailed>>

\* ------------------------------------------------- reconciliation script
\* One CSV item of reconcile_inventory.py: parse_csv keeps quantities > 0,
\* the SKU is matched against the catalog, everything goes to the main
\* warehouse.  Status 200 stands for "reconciled", 404 for "skipped",
\* 500 for an entry in the errors list, 422 for a row parse_csv leaves out.
AdjustmentItem ==
  [op : {"adjustment"}, user : {ScriptUser}, warehouse_id : {MAIN_WAREHOUSE_ID},
   to_warehouse_id : {Null}, product_id : RequestProductIds,
   quantity : Quantities, unit_price : {NoNum}]

\* reconcile_inventory.py 154-173: skip an item whose product is unknown
reconcile_item(c, Items) ==
  /\ CanStart(c)
  /\ nOps' = nOps + 1
  /\ \E item \in Items :
       IF ~ValidQuantity(item.quantity) THEN Unprocessable(c, item)
       ELSE IF item.product_id \notin ProductIds THEN Reject(c, item, 404)
       ELSE Proceed(c, item, "adjust_select", NoNum)

\* reconcile_inventory.py 176-181: read the row
adjust_select(c) ==
  /\ At(c, "adjust_select")
  /\ \/ Fail(c)
     \/ /\ Goto(c, "adjust_write",
                [loc[c] EXCEPT !.current_stock = Row(req[c].warehouse_id, req[c].product_id)])
        /\ UNCHANGED <<inventory_items, transactions>>

\* reconcile_inventory.py 183-200: update the row read, or insert one
adjust_write(c) ==
  /\ At(c, "adjust_write")
  /\ \/ Fail(c)
     \/ /\ UpsertWrite(c, req[c].warehouse_id, req[c].product_id,
                       loc[c].current_stock, req[c].quantity)
        /\ Goto(c, "adjust_insert", [loc[c] EXCEPT !.wrote = @ \cup {"ledger"}])
        /\ UNCHANGED transactions

\* reconcile_inventory.py 202-212: append the ADJUSTMENT transaction
adjust_insert(c) ==
  /\ At(c, "adjust_insert")
  /\ \/ Fail(c)
     \/ /\ transactions' = Append(transactions,
             Transaction("ADJUSTMENT", req[c].product_id, Null, req[c].warehouse_id,
                         req[c].quantity, NoNum, Null))
        /\ Return(c, req[c],
                  [NoResp EXCEPT !.status = 200,
                                 !.new_stock_level =
                                    Incremented(loc[c].current_stock, req[c].quantity)],
                  [loc[c] EXCEPT !.wrote = @ \cup {"log"}])
        /\ UNCHANGED <<inventory_items, nOps, storageFailed>>

\* ------------------------------------------------------ import script
\* One CSV row of import_purchases.py, for the main warehouse.  Status 200
\* stands for "imported", 404 for "skipped", 500 for an entry in the errors
\* list, 422 for a row passed over for its quantity.
ImportRow ==
  [op : {"import"}, user : {ScriptUser}, warehouse_id : {MAIN_WAREHOUSE_ID},
   to_warehouse_id : {Null}, product_id : RequestProductIds,
   quantity : Quantities, unit_price : {NoNum}]

\* import_purchases.py 188-205: quantity <= 0 and unknown SKU
import_row(c, Rows) ==
  /\ CanStart(c)
  /\ nOps' = nOps + 1
  /\ \E row \in Rows :
       IF ~ValidQuantity(row.quantity) THEN Unprocessable(c, row)
       ELSE IF row.product_id \notin ProductIds THEN Reject(c, row, 404)
       ELSE Proceed(c, row, "import_select", Products[row.product_id].cost_price)

\* import_purchases.py 208-212: read the row
import_select(c) ==
  /\ At(c, "import_select")
  /\ \/ Fail(c)
     \/ /\ Goto(c, "import_write",
                [loc[c] EXCEPT !.current_stock = Row(req[c].warehouse_id, req[c].product_id)])
        /\ UNCHANGED <<inventory_items, transactions>>

\* import_purchases.py 214-226: update the row read, or insert one
import_write(c) ==
  /\ At(c, "import_write")
  /\ \/ Fail(c)
     \/ /\ UpsertWrite(c, req[c].warehouse_id, req[c].product_id,
                       loc[c].current_stock, req[c].quantity)
        /\ Goto(c, "import_insert", [loc[c] EXCEPT !.wrote = @ \cup {"ledger"}])
        /\ UNCHANGED transactions

\* import_purchases.py 228-243: append the RESTOCK transaction
import_insert(c) ==
  /\ At(c, "import_insert")
  /\ \/ Fail(c)
     \/ /\ transactions' = Append(transactions,
             Transaction("RESTOCK", req[c].product_id, Null, req[c].warehouse_id,
                         req[c].quantity, loc[c].final_unit_price, Null))
        /\ Return(c, req[c],
                  [NoResp EXCEPT !.status = 200,
                                 !.new_stock_level =
                                    Incremented(loc[c].current_stock, req[c].quantity)],
                  [loc[c] EXCEPT !.wrote = @ \cup {"log"}])
        /\ UNCHANGED <<inventory_items, nOps, storageFailed>>

\* ------------------------------------------------ warehouse-scoped queries
QueryRequest(op) ==
  [op : {op}, user : UserContext, warehouse_id : RequestWarehouseIds,
   to_warehouse_id : {Null}, product_id : {Null}, quantity : {0},
   unit_price : {NoNum}]

\* The access and existence checks of the warehouse detail query
Query(c, Requests) ==
  /\ CanStart(c)
  /\ nOps' = nOps + 1
  /\ \E q \in Requests :
       IF ~can_access(q.user, q.warehouse_id) THEN Reject(c, q, 403)
       ELSE IF q.warehouse_id \notin WarehouseIds THEN Reject(c, q, 404)
       ELSE Reject(c, q, 200)

\* ------------------------------------------------------------- listings
\* Small pages, so that a listing has more than one.
Pages == {1, 2}
PageSizes == {1, 2}

\* Search and brand terms: none given, one that matches product P1, one that
\* matches no product.
Searches == {Null, "one", "none"}

Matching(term) == IF term = "one" THEN {"P1"} ELSE {}

\* The product ids a listing keeps
ProductFilter(term) == IF term = Null THEN ProductIds ELSE Matching(term)

\* The order in which the store returns rows of a query without order clause
ProductOrder == <<"P1", "P2">>
WarehouseOrder == <<"W1", "W2">>

InventoryListRequest ==
  [op : {"list_inventory"}, user : UserContext, warehouse_id : RequestWarehouseIds,
   to_warehouse_id : {Null}, product_id : {Null}, quantity : {0},
   unit_price : {NoNum}, page : Pages, page_size : PageSizes, search : Searches]

AllInventoryRequest ==
  [op : {"list_all_inventory"}, user : UserContext, warehouse_id : {Null},
   to_warehouse_id : {Null}, product_id : {Null}, quantity : {0},
   unit_price : {NoNum}]

TransactionListRequest ==
  [op : {"list_transactions"}, user : UserContext, warehouse_id : RequestWarehouseIds,
   to_warehouse_id : {Null}, product_id : {Null}, quantity : {0},
   unit_price : {NoNum}, page : Pages, page_size : PageSizes, brand : Searches,
   transaction_type : {Null, "RESTOCK"}]

InventoryItemResponse(inv, w, p) ==
  [warehouse_id |-> w, product_id |-> p, quantity_on_hand |-> inv[<<w, p>>]]

\* select * from inventory_items where warehouse_id = w and product_id in
\* pids, over the first n products of the store's order
RECURSIVE SelectRows(_, _, _, _)
SelectRows(inv, w, pids, n) ==
  IF n = 0 THEN <<>>
  ELSE LET p == ProductOrder[n]
           rest == SelectRows(inv, w, pids, n - 1)
       IN IF HasRow(inv, w, p) /\ p \in pids
          THEN Append(rest, InventoryItemResponse(inv, w, p))
          ELSE rest

\* Mutant of the page: the offset moves on with every call served.
RangeDrifting(rows, start, end) ==
  SubSeq(rows, start + nOps, IF end + nOps < Len(rows) THEN end + nOps ELSE Len(rows))

\* .range(start, end): the rows at offsets start..end, counted from 0
Range(rows, start, end) ==
  SubSeq(rows, start + 1, IF end + 1 < Len(rows) THEN end + 1 ELSE Len(rows))

\* The fields InventoryListResponse requires; constructing it from keyword
\* arguments that miss one raises a validation error.
InventoryListResponseRequired ==
  {"warehouse_id", "warehouse_name", "items", "total_items", "page", "page_size",
   "low_stock_count"}

ValidInventoryListResponse(given) == InventoryListResponseRequired \subseteq given

\* .lt("quantity_on_hand", 5)
LowStockRow(quantity_on_hand) == quantity_on_hand < 5

\* if item["quantity_on_hand"] < 5
LowStockItem(quantity_on_hand) == quantity_on_hand < 5

\* The count of the low-stock query of a warehouse
LowStockCount(inv, w) ==
  Cardinality({p \in ProductIds : HasRow(inv, w, p) /\ LowStockRow(inv[<<w, p>>])})

\* low_stock_count of get_all_inventory, over the first n items
RECURSIVE CountLowStock(_, _)
CountLowStock(items, n) ==
  IF n = 0 THEN 0
  ELSE CountLowStock(items, n - 1)
       + (IF LowStockItem(items[n].quantity_on_hand) THEN 1 ELSE 0)

\* inventory.py 38-82: access and existence checks, search without a match
get_warehouse_inventory(c, Requests) ==
  /\ CanStart(c)
  /\ nOps' = nOps + 1
  /\ \E q \in Requests :
       IF ~can_access(q.user, q.warehouse_id) THEN Reject(c, q, 403)
       ELSE IF q.warehouse_id \notin WarehouseIds THEN Reject(c, q, 404)
       ELSE IF q.search # Null /\ Matching(q.search) = {}
       THEN IF ValidInventoryListResponse(
                  {"warehouse_id", "warehouse_name", "items", "total_items", "page",
                   "page_size", "low_stock_count"})
            THEN Respond(c, q, [NoResp EXCEPT !.status = 200])
            ELSE RejectFor(c, q, 500, "ValidationError")
       ELSE Proceed(c, q, "inventory_page", NoNum)

\* inventory.py 78-93: the page of rows and their exact count
inventory_page(c) ==
  /\ At(c, "inventory_page")
  /\ \/ Fail(c)
     \/ LET rows == SelectRows(inventory_items, req[c].warehouse_id,
                               ProductFilter(req[c].search), Len(ProductOrder))
            start == (req[c].page - 1) * req[c].page_size
            end == start + req[c].page_size - 1
        IN /\ Goto(c, "inventory_low",
                   [loc[c] EXCEPT !.items = Range(rows, start, end), !.total = Len(rows)])
           /\ UNCHANGED <<inventory_items, transactions>>

\* inventory.py 95-142: the low-stock count of the warehouse, and the answer
inventory_low(c) ==
  /\ At(c, "inventory_low")
  /\ \/ Fail(c)
     \/ IF ValidInventoryListResponse(
              {"warehouse_id", "warehouse_name", "items", "total_items", "page",
               "page_size", "low_stock_count"})
        THEN /\ Return(c, req[c],
                       [NoResp EXCEPT !.status = 200,
                                      !.items = loc[c].items,
                                      !.total = loc[c].total,
                                      !.low_stock_count =
                                         LowStockCount(inventory_items, req[c].warehouse_id)],
                       loc[c])
             /\ UNCHANGED <<inventory_items, transactions, nOps, storageFailed>>
        ELSE RefuseFor(c, 500, "ValidationError")

\* The warehouses get_all_inventory goes through
Accessible(user) ==
  IF user.role = "admin" THEN WarehouseOrder
  ELSE IF user.warehouse_id \in WarehouseIds THEN <<user.warehouse_id>>
  ELSE <<>>

\* inventory.py 145-166: the warehouses of the caller
get_all_inventory(c, Requests) ==
  /\ CanStart(c)
  /\ nOps' = nOps + 1
  /\ \E q \in Requests :
       IF Accessible(q.user) = <<>>
       THEN Respond(c, q, [NoResp EXCEPT !.status = 200])
       ELSE Proceed(c, q, "all_inventory", NoNum)

\* inventory.py 166-213: the rows of the next warehouse, all of them, and
\* the number of them that are low on stock; its InventoryListResponse is
\* built without page and page_size
all_inventory(c) ==
  /\ At(c, "all_inventory")
  /\ \/ Fail(c)
     \/ LET warehouses == Accessible(req[c].user)
            w == warehouses[Len(loc[c].results) + 1]
            items == SelectRows(inventory_items, w, ProductIds, Len(ProductOrder))
            results == Append(loc[c].results,
                              [warehouse_id |-> w, items |-> items,
                               total_items |-> Len(items),
                               low_stock_count |-> CountLowStock(items, Len(items))])
        IN IF ~ValidInventoryListResponse(
                 {"warehouse_id", "warehouse_name", "items", "total_items",
                  "low_stock_count"})
           THEN RefuseFor(c, 500, "ValidationError")
           ELSE /\ IF Len(results) = Len(warehouses)
                   THEN /\ Return(c, req[c],
                                  [NoResp EXCEPT !.status = 200, !.results = results],
                                  loc[c])
                        /\ UNCHANGED <<nOps, storageFailed>>
                   ELSE Goto(c, "all_inventory", [loc[c] EXCEPT !.results = results])
                /\ UNCHANGED <<inventory_items, transactions>>

\* TransactionResponse of the row with id i; unit_price is not passed on
TransactionResponse(log, i) ==
  [id |-> i, transaction_type |-> log[i].transaction_type,
   product_id |-> log[i].product_id,
   from_warehouse_id |-> log[i].from_warehouse_id,
   to_warehouse_id |-> log[i].to_warehouse_id,
   quantity |-> log[i].quantity, unit_price |-> NoNum,
   created_by |-> log[i].created_by]

\* Mutant of the transaction query: only the destination is compared.
RECURSIVE SelectTransactionsTo(_, _, _, _, _)
SelectTransactionsTo(log, n, w, type, pids) ==
  IF n = 0 THEN <<>>
  ELSE LET t == log[n]
           rest == SelectTransactionsTo(log, n - 1, w, type, pids)
       IN IF /\ t.to_warehouse_id = w
             /\ (type = Null \/ t.transaction_type = type)
             /\ t.product_id \in pids
          THEN <<[id |-> n, transaction_type |-> t.transaction_type,
                  product_id |-> t.product_id,
                  from_warehouse_id |-> t.from_warehouse_id,
                  to_warehouse_id |-> t.to_warehouse_id,
                  quantity |-> t.quantity, unit_price |-> NoNum,
                  created_by |-> t.created_by]>> \o rest
          ELSE rest

\* The transactions among the first n of the log that have w as source or
\* destination, the type and a product of pids, latest first
RECURSIVE SelectTransactions(_, _, _, _, _)
SelectTransactions(log, n, w, type, pids) ==
  IF n = 0 THEN <<>>
  ELSE LET t == log[n]
           rest == SelectTransactions(log, n - 1, w, type, pids)
       IN IF /\ (t.from_warehouse_id = w \/ t.to_warehouse_id = w)
             /\ (type = Null \/ t.transaction_type = type)
             /\ t.product_id \in pids
          THEN <<TransactionResponse(log, n)>> \o rest
          ELSE rest

\* transactions.py 43-70: access and existence checks, brand without a match
get_warehouse_transactions(c, Requests) ==
  /\ CanStart(c)
  /\ nOps' = nOps + 1
  /\ \E q \in Requests :
       IF ~can_access(q.user, q.warehouse_id) THEN Reject(c, q, 403)
       ELSE IF q.warehouse_id \notin WarehouseIds THEN Reject(c, q, 404)
       ELSE IF q.brand # Null /\ Matching(q.brand) = {}
       THEN Respond(c, q, [NoResp EXCEPT !.status = 200])
       ELSE Proceed(c, q, "transactions_count", NoNum)

\* transactions.py 83-95: the count query
transactions_count(c) ==
  /\ At(c, "transactions_count")
  /\ \/ Fail(c)
     \/ /\ Goto(c, "transactions_page",
                [loc[c] EXCEPT !.total =
                   Len(SelectTransactions(transactions, Len(transactions),
                                          req[c].warehouse_id, req[c].transaction_type,
                                          ProductFilter(req[c].brand)))])
        /\ UNCHANGED <<inventory_items, transactions>>

\* transactions.py 97-181: the page of transactions, latest first
transactions_page(c) ==
  /\ At(c, "transactions_page")
  /\ \/ Fail(c)
     \/ LET rows == SelectTransactions(transactions, Len(transactions),
                                       req[c].warehouse_id, req[c].transaction_type,
                                       ProductFilter(req[c].brand))
            offset == (req[c].page - 1) * req[c].page_size
        IN /\ Return(c, req[c],
                     [NoResp EXCEPT !.status = 200,
                                    !.items = Range(rows, offset, offset + req[c].page_size - 1),
                                    !.total = loc[c].total],
                     loc[c])
           /\ UNCHANGED <<inventory_items, transactions, nOps, storageFailed>>

\* warehouses.py 66-79
get_warehouse(c, Requests) == Query(c, Requests)

WarehouseListRequest ==
  [op : {"list_warehouses"}, user : UserContext, warehouse_id : {Null},
   to_warehouse_id : {Null}, product_id : {Null}, quantity : {0},
   unit_price : {NoNum}]

\* WarehouseResponse of warehouse w
WarehouseResponse(w) == [id |-> w]

\* The rows of warehouses among the first n in name order whose id is in ids
RECURSIVE SelectWarehouses(_, _)
SelectWarehouses(ids, n) ==
  IF n = 0 THEN <<>>
  ELSE IF WarehouseOrder[n] \in ids
       THEN Append(SelectWarehouses(ids, n - 1), WarehouseResponse(WarehouseOrder[n]))
       ELSE SelectWarehouses(ids, n - 1)

\* warehouses.py 16-48: all warehouses for an admin, the assigned one for a
\* partner, none for a partner without a warehouse
list_warehouses(c, Requests) ==
  /\ CanStart(c)
  /\ nOps' = nOps + 1
  /\ \E q \in Requests :
       IF q.user.role = "admin"
       THEN Respond(c, q, [NoResp EXCEPT !.status = 200,
                                         !.items = SelectWarehouses(WarehouseIds,
                                                                    Len(WarehouseOrder))])
       ELSE IF q.user.warehouse_id = Null
       THEN Respond(c, q, [NoResp EXCEPT !.status = 200])
       ELSE Respond(c, q, [NoResp EXCEPT !.status = 200,
                                         !.items = SelectWarehouses({q.user.warehouse_id},
                                                                    Len(WarehouseOrder))])

\* --------------------------------------------------------- specifications
Quiet == \A c \in Callers : pc[c] = "idle"

Step(c) ==
  \/ sale_select(c)
  \/ sale_update(c)
  \/ sale_insert(c)
  \/ purchase_select(c)
  \/ purchase_write(c)
  \/ purchase_insert(c)
  \/ transfer_select(c)
  \/ transfer_decrement(c)
  \/ transfer_dest_select(c)
  \/ transfer_dest_write(c)
  \/ transfer_out(c)
  \/ transfer_in(c)
  \/ adjust_select(c)
  \/ adjust_write(c)
  \/ adjust_insert(c)
  \/ inventory_page(c)
  \/ inventory_low(c)
  \/ all_inventory(c)
  \/ transactions_count(c)
  \/ transactions_page(c)

\* Every request, once no call is in flight.
Alone(S) == { r \in S : Quiet }

\* Requests about product P1 at its list price, to known warehouses, by the
\* admin, by partner1 or by the script; listings of the first page of two
\* rows, without search, brand or type.
Plain(S) ==
  { r \in S : /\ r.product_id \in {"P1", Null}
              /\ r.unit_price = NoNum
              /\ r.warehouse_id \in WarehouseIds \cup {Null}
              /\ r.to_warehouse_id \in WarehouseIds \cup {Null}
              /\ r.user.user_id # "partner0"
              /\ r.op \in {"list_inventory", "list_transactions"} =>
                    (r.page = 1 /\ r.page_size = 2)
              /\ r.op = "list_inventory" => r.search = Null
              /\ r.op = "list_transactions" =>
                    (r.brand = Null /\ r.transaction_type = Null) }

\* The requests a call may start with: all of S when calls come one at a
\* time, the plain ones when they overlap.
Pick(S, serial) == IF serial THEN Alone(S) ELSE Plain(S)

\* A call starts.
Start(c, serial) ==
  \/ record_sale(c, Pick(SaleRequest, serial))
  \/ record_purchase(c, Pick(PurchaseRequest, serial))
  \/ create_transfer(c, Pick(TransferRequest, serial))
  \/ reconcile_item(c, Pick(AdjustmentItem, serial))
  \/ get_warehouse_inventory(c, Pick(InventoryListRequest, serial))
  \/ get_all_inventory(c, Pick(AllInventoryRequest, serial))
  \/ get_warehouse_transactions(c, Pick(TransactionListRequest, serial))
  \/ get_warehouse(c, Pick(QueryRequest("get_warehouse"), serial))
  \/ list_warehouses(c, Pick(WarehouseListRequest, serial))

\* Concurrent callers: a call may start while others are in flight.
Next == Deliver \/ \E c \in Callers : Start(c, FALSE) \/ Step(c)

Spec == Init /\ [][Next]_vars

\* One call at a time, over all requests.
NextSeq == Deliver \/ \E c \in Callers : Start(c, TRUE) \/ Step(c)

SpecSeq == Init /\ [][NextSeq]_vars

\* The request set S with the quantities a caller may send.
Sent(S) == { [r EXCEPT !.quantity = q] : r \in S, q \in SentQuantities }

\* A call starts with a request as sent, before its validation.
StartSent(c) ==
  \/ record_sale(c, Alone(Sent(SaleRequest)))
  \/ record_purchase(c, Alone(Sent(PurchaseRequest)))
  \/ create_transfer(c, Alone(Sent(TransferRequest)))
  \/ reconcile_item(c, Alone(Sent(AdjustmentItem)))
  \/ import_row(c, Alone(Sent(ImportRow)))
  \/ get_warehouse_inventory(c, Alone(InventoryListRequest))
  \/ get_all_inventory(c, Alone(AllInventoryRequest))
  \/ get_warehouse_transactions(c, Alone(TransactionListRequest))
  \/ get_warehouse(c, Alone(QueryRequest("get_warehouse")))
  \/ list_warehouses(c, Alone(WarehouseListRequest))

StepSent(c) ==
  \/ Step(c)
  \/ import_select(c)
  \/ import_write(c)
  \/ import_insert(c)

\* One call at a time, over all requests as sent, with the import script.
NextSent == Deliver \/ \E c \in Callers : StartSent(c) \/ StepSent(c)

SpecSent == Init /\ [][NextSent]_vars

\* =================================================================== claims
\* Quantity on hand of (w, p) in ledger inv, 0 when there is no row.
Qty(inv, w, p) == IF HasRow(inv, w, p) THEN inv[<<w, p>>] ELSE 0

\* The ledger and the log are as they were when the latest call started.
Untouched == inventory_items = last.pre_inv /\ transactions = last.pre_log

Returned(op) == last.req.op = op

MutationOps == {"sale", "purchase", "transfer", "adjustment"}
ScopedOps == {"sale", "list_inventory", "list_transactions", "get_warehouse"}
QueryOps == {"list_inventory", "list_transactions", "get_warehouse"}

\* What a transaction adds to the stock of (w, p): audit_inventory.py sums
\* RESTOCK, ADJUSTMENT and TRANSFER_IN with to = w, minus SALE and
\* TRANSFER_OUT with from = w.
Delta(t, w, p) ==
  IF t.product_id # p THEN 0
  ELSE (IF t.to_warehouse_id = w
           /\ t.transaction_type \in {"RESTOCK", "ADJUSTMENT", "TRANSFER_IN"}
        THEN t.quantity ELSE 0)
       - (IF t.from_warehouse_id = w
             /\ t.transaction_type \in {"SALE", "TRANSFER_OUT"}
          THEN t.quantity ELSE 0)

RECURSIVE TxNet(_, _, _, _)
TxNet(log, n, w, p) ==
  IF n = 0 THEN 0 ELSE TxNet(log, n - 1, w, p) + Delta(log[n], w, p)

\* ----------------------------------------------------------------------
\* C1: in every reachable state, under any interleaving of sales, purchases,
\* transfers and adjustments, every ledger row has quantity_on_hand >= 0.
C1_NonNegativeStock ==
  \A k \in DOMAIN inventory_items : inventory_items[k] >= 0

\* A sale that emptied a row has just returned while another call is in flight.
C1_Witness ==
  /\ Returned("sale") /\ last.resp.status = 200
  /\ Qty(inventory_items, last.req.warehouse_id, last.req.product_id) = 0
  /\ \E c \in Callers : pc[c] \notin {"idle", "sale_select", "transfer_select"}

\* ----------------------------------------------------------------------
\* C2 (as claimed): once all calls have returned and no store call has
\* failed, every row holds the sum of the deltas of the logged operations,
\* i.e. no update of a row was lost.
C2_NoLostUpdate ==
  (Quiet /\ ~storageFailed) =>
     \A w \in WarehouseIds, p \in ProductIds :
        Qty(inventory_items, w, p) = TxNet(transactions, Len(transactions), w, p)

\* ----------------------------------------------------------------------
\* The ledger a transfer of q of p from f to t leaves when all of it applies.
TransferredLedger(inv, f, t, p, q) ==
  LET dec == UpdateRow(inv, f, p, inv[<<f, p>>] - q)
  IN IF HasRow(dec, t, p) THEN UpdateRow(dec, t, p, dec[<<t, p>>] + q)
     ELSE InsertRow(dec, t, p, q)

TransferApplied ==
  LET r == last.req
      n == Len(last.pre_log)
  IN /\ HasRow(last.pre_inv, r.warehouse_id, r.product_id)
     /\ inventory_items = TransferredLedger(last.pre_inv, r.warehouse_id,
                                            r.to_warehouse_id, r.product_id, r.quantity)
     /\ Len(transactions) = n + 2
     /\ SubSeq(transactions, 1, n) = last.pre_log
     /\ transactions[n + 1].transaction_type = "TRANSFER_OUT"
     /\ transactions[n + 2].transaction_type = "TRANSFER_IN"

\* C3 (as claimed): when a transfer has returned, with success or with an
\* error, either all four of its writes are applied or none is.
C3_TransferAllOrNothing ==
  Returned("transfer") => (Untouched \/ TransferApplied)

\* ----------------------------------------------------------------------
\* C4 (as claimed): when a sale or a purchase has returned, either the ledger
\* row is written and exactly one transaction is appended, or neither the
\* ledger nor the log has changed.
C4_SaleAndPurchaseAllOrNothing ==
  (Returned("sale") \/ Returned("purchase")) =>
     \/ Untouched
     \/ /\ inventory_items # last.pre_inv
        /\ Len(transactions) = Len(last.pre_log) + 1
        /\ SubSeq(transactions, 1, Len(last.pre_log)) = last.pre_log

\* ----------------------------------------------------------------------
\* C5: a successful transfer of q of P from A to B leaves stock_A + stock_B
\* of P as it was and appends exactly two transactions, a TRANSFER_OUT and
\* a TRANSFER_IN, each with quantity q.
C5_TransferConservation ==
  (Returned("transfer") /\ last.resp.status = 200) =>
     LET r == last.req
         n == Len(last.pre_log)
     IN /\ Qty(inventory_items, r.warehouse_id, r.product_id)
             + Qty(inventory_items, r.to_warehouse_id, r.product_id)
           = Qty(last.pre_inv, r.warehouse_id, r.product_id)
             + Qty(last.pre_inv, r.to_warehouse_id, r.product_id)
        /\ Len(transactions) = n + 2
        /\ SubSeq(transactions, 1, n) = last.pre_log
        /\ transactions[n + 1].transaction_type = "TRANSFER_OUT"
        /\ transactions[n + 1].quantity = r.quantity
        /\ transactions[n + 2].transaction_type = "TRANSFER_IN"
        /\ transactions[n + 2].quantity = r.quantity

\* A transfer into a warehouse that already stocks the product succeeded.
C5_Witness ==
  /\ Returned("transfer") /\ last.resp.status = 200
  /\ last.req.warehouse_id # last.req.to_warehouse_id
  /\ HasRow(last.pre_inv, last.req.to_warehouse_id, last.req.product_id)

\* ----------------------------------------------------------------------
\* The price a sale request is made at: its unit_price, else the retail price.
EffectivePrice(r) ==
  IF r.unit_price # NoNum THEN r.unit_price ELSE Products[r.product_id].retail_price

PricedBelowCost(r) ==
  /\ r.product_id \in ProductIds
  /\ EffectivePrice(r) # NoNum
  /\ Products[r.product_id].cost_price # NoNum
  /\ EffectivePrice(r) < Products[r.product_id].cost_price

\* C6: a sale whose effective unit price is below the product's cost price,
\* both being defined, is rejected whatever the caller's role and changes
\* neither ledger nor log; no SALE transaction carries a unit_price below
\* the product's cost_price.
C6_MarginFloor ==
  /\ (Returned("sale") /\ PricedBelowCost(last.req)) =>
        /\ last.resp.status \in {400, 403, 404}
        /\ Untouched
  /\ \A i \in 1..Len(transactions) :
        LET t == transactions[i]
        IN (/\ t.transaction_type = "SALE"
            /\ t.unit_price # NoNum
            /\ Products[t.product_id].cost_price # NoNum)
           => t.unit_price >= Products[t.product_id].cost_price

\* A below-cost sale of stocked units, by the partner of the warehouse, was
\* refused for its price.
C6_Witness ==
  /\ Returned("sale") /\ PricedBelowCost(last.req)
  /\ last.req.user.role = "partner"
  /\ last.resp.status = 400
  /\ Qty(inventory_items, last.req.warehouse_id, last.req.product_id) >= last.req.quantity

\* ----------------------------------------------------------------------
\* A partner assigned to a warehouse other than the one targeted is refused.
PartnerScoped ==
  (/\ last.req.op \in ScopedOps
   /\ last.req.user.role = "partner"
   /\ last.req.user.warehouse_id \in WarehouseIds
   /\ last.req.user.warehouse_id # last.req.warehouse_id)
  => (last.resp.status = 403 /\ Untouched)

\* C7 (as claimed): a partner assigned to W gets 403 for every warehouse-scoped
\* operation or query on another warehouse, with no state change, and an
\* admin gets 200 for any warehouse_id.
C7_AccessScopingAsClaimed ==
  /\ PartnerScoped
  /\ (last.req.op \in QueryOps /\ last.req.user.role = "admin")
        => last.resp.status = 200

\* C7 (amended): a partner assigned to W gets 403 for every warehouse-scoped
\* operation or query on another warehouse, with no state change; an admin is
\* never refused with 403, and gets from the warehouse-scoped queries 404 for
\* a warehouse_id that does not exist and 200 for every one that exists,
\* unless a store call of the query fails (500).
C7_AccessScoping ==
  /\ PartnerScoped
  /\ (last.req.op \in ScopedOps /\ last.req.user.role = "admin")
        => /\ last.resp.status # 403
           /\ last.req.op \in QueryOps =>
                 IF last.req.warehouse_id \in WarehouseIds
                 THEN last.resp.status \in {200, 500}
                 ELSE last.resp.status = 404

\* The partner of W1 was refused a sale from W2, which holds the stock asked for.
C7_Witness ==
  /\ Returned("sale")
  /\ last.req.user.user_id = "partner1"
  /\ last.req.warehouse_id = "W2"
  /\ Qty(inventory_items, "W2", last.req.product_id) >= last.req.quantity
  /\ last.resp.status = 403

\* ----------------------------------------------------------------------
RoleOf(user_id) ==
  IF \E u \in UserContext : u.user_id = user_id
  THEN (CHOOSE u \in UserContext : u.user_id = user_id).role
  ELSE "script"

\* C8: a purchase or a transfer by a caller who is not an admin, a partner
\* on their own warehouse included, is refused with 403 before any catalog
\* read or write, so every RESTOCK, TRANSFER_OUT and TRANSFER_IN transaction
\* was created by an admin.
C8_AdminOnly ==
  /\ (last.req.op \in {"purchase", "transfer"} /\ last.req.user.role # "admin")
        => (last.resp.status = 403 /\ Untouched)
  /\ \A i \in 1..Len(transactions) :
        transactions[i].transaction_type \in {"RESTOCK", "TRANSFER_OUT", "TRANSFER_IN"}
           => RoleOf(transactions[i].created_by) = "admin"

\* The partner of W1 was refused a transfer out of W1, which holds the stock.
C8_Witness ==
  /\ Returned("transfer")
  /\ last.req.user.user_id = "partner1"
  /\ last.req.warehouse_id = "W1"
  /\ last.req.to_warehouse_id = "W2"
  /\ Qty(inventory_items, "W1", last.req.product_id) >= last.req.quantity
  /\ last.resp.status = 403

\* ----------------------------------------------------------------------
\* The failures of a mutation, read off the request and the ledger it met.
Forbidden(r) ==
  \/ r.op = "sale" /\ r.user.role # "admin" /\ r.user.warehouse_id # r.warehouse_id
  \/ r.op \in {"purchase", "transfer"} /\ r.user.role # "admin"

UnknownReference(r) ==
  \/ r.warehouse_id \notin WarehouseIds
  \/ r.op = "transfer" /\ r.to_warehouse_id \notin WarehouseIds
  \/ r.product_id \notin ProductIds

OutOfStock(r, inv) ==
  /\ r.op \in {"sale", "transfer"}
  /\ \/ ~HasRow(inv, r.warehouse_id, r.product_id)
     \/ inv[<<r.warehouse_id, r.product_id>>] < r.quantity

Invalid(r, inv) ==
  \/ Forbidden(r)
  \/ UnknownReference(r)
  \/ r.op = "sale" /\ PricedBelowCost(r)
  \/ OutOfStock(r, inv)

\* C9: every access, not-found or validation failure of a mutation (forbidden
\* warehouse, unknown warehouse or product, price below cost, product not
\* stocked, quantity above the current stock of a sale or a transfer) ends in
\* an error with every ledger row and the log exactly as they were.
C9_FailuresWriteNothing ==
  last.req.op \in MutationOps =>
     /\ Invalid(last.req, last.pre_inv) =>
           (last.resp.status \in {400, 403, 404, 500} /\ Untouched)
     /\ last.resp.status \in {400, 403, 404} => Untouched

\* A transfer of more than the source holds was refused.
C9_Witness ==
  /\ Returned("transfer")
  /\ HasRow(last.pre_inv, last.req.warehouse_id, last.req.product_id)
  /\ last.pre_inv[<<last.req.warehouse_id, last.req.product_id>>] < last.req.quantity
  /\ last.resp.status = 400

\* ----------------------------------------------------------------------
\* C10: a successful sale of q from a row holding c >= q sets the row to
\* c - q, appends exactly one transaction {SALE, from = warehouse, to = null,
\* quantity q, unit_price = effective price, created_by = caller} and answers
\* new_stock_level = c - q and unit_price = effective price, the effective
\* price being the request's unit_price, else the product's retail_price.
C10_SaleEffect ==
  (Returned("sale") /\ last.resp.status = 200) =>
     LET r == last.req
         c == Qty(last.pre_inv, r.warehouse_id, r.product_id)
     IN /\ HasRow(last.pre_inv, r.warehouse_id, r.product_id)
        /\ c >= r.quantity
        /\ inventory_items =
              UpdateRow(last.pre_inv, r.warehouse_id, r.product_id, c - r.quantity)
        /\ transactions =
              Append(last.pre_log,
                     [transaction_type |-> "SALE", product_id |-> r.product_id,
                      from_warehouse_id |-> r.warehouse_id, to_warehouse_id |-> Null,
                      quantity |-> r.quantity, unit_price |-> EffectivePrice(r),
                      created_by |-> r.user.user_id])
        /\ last.resp.new_stock_level = c - r.quantity
        /\ last.resp.unit_price = EffectivePrice(r)
        /\ last.resp.transaction_id = Len(transactions)

\* A sale at a price given in the request succeeded.
C10_Witness ==
  /\ Returned("sale") /\ last.resp.status = 200
  /\ last.req.unit_price # NoNum
  /\ last.req.unit_price # Products[last.req.product_id].retail_price

\* ----------------------------------------------------------------------
\* The cost a purchase request is made at: its unit_cost, else the cost price.
EffectiveCost(r) ==
  IF r.unit_price # NoNum THEN r.unit_price ELSE Products[r.product_id].cost_price

\* C11: a successful purchase of q into (W, P) creates the row with quantity
\* q when there is none and otherwise sets it to current + q; it appends
\* exactly one transaction {RESTOCK, from = null, to = W, quantity q,
\* unit_price = effective cost}, the effective cost being the request's
\* unit_cost, else the product's cost_price, and answers new_stock_level =
\* the quantity written.
C11_PurchaseEffect ==
  (Returned("purchase") /\ last.resp.status = 200) =>
     LET r == last.req
         had == HasRow(last.pre_inv, r.warehouse_id, r.product_id)
         written == IF had THEN last.pre_inv[<<r.warehouse_id, r.product_id>>] + r.quantity
                    ELSE r.quantity
     IN /\ inventory_items =
              (IF had THEN UpdateRow(last.pre_inv, r.warehouse_id, r.product_id, written)
               ELSE InsertRow(last.pre_inv, r.warehouse_id, r.product_id, written))
        /\ transactions =
              Append(last.pre_log,
                     [transaction_type |-> "RESTOCK", product_id |-> r.product_id,
                      from_warehouse_id |-> Null, to_warehouse_id |-> r.warehouse_id,
                      quantity |-> r.quantity, unit_price |-> EffectiveCost(r),
                      created_by |-> r.user.user_id])
        /\ last.resp.new_stock_level = written
        /\ last.resp.unit_price = EffectiveCost(r)

\* A purchase at a unit_cost given in the request created a row.
C11_Witness ==
  /\ Returned("purchase") /\ last.resp.status = 200
  /\ ~HasRow(last.pre_inv, last.req.warehouse_id, last.req.product_id)
  /\ last.req.unit_price # NoNum
  /\ last.req.unit_price # Products[last.req.product_id].cost_price

\* ----------------------------------------------------------------------
\* C12: a successful transfer of q of P from W1 to a different warehouse W2
\* sets W1's row to current - q, creates W2's row with q or adds q to it,
\* and appends a TRANSFER_OUT and a TRANSFER_IN that carry the same from =
\* W1, to = W2, product, quantity q and created_by and differ in type only.
C12_TransferEffect ==
  (/\ Returned("transfer") /\ last.resp.status = 200
   /\ last.req.warehouse_id # last.req.to_warehouse_id) =>
     LET r == last.req
         row == [transaction_type |-> "TRANSFER_OUT", product_id |-> r.product_id,
                 from_warehouse_id |-> r.warehouse_id,
                 to_warehouse_id |-> r.to_warehouse_id,
                 quantity |-> r.quantity, unit_price |-> NoNum,
                 created_by |-> r.user.user_id]
     IN /\ HasRow(last.pre_inv, r.warehouse_id, r.product_id)
        /\ inventory_items =
              TransferredLedger(last.pre_inv, r.warehouse_id, r.to_warehouse_id,
                                r.product_id, r.quantity)
        /\ transactions =
              last.pre_log \o <<row, [row EXCEPT !.transaction_type = "TRANSFER_IN"]>>

\* A transfer of two units created the row of the destination.
C12_Witness ==
  /\ Returned("transfer") /\ last.resp.status = 200
  /\ last.req.warehouse_id # last.req.to_warehouse_id
  /\ last.req.quantity = 2
  /\ ~HasRow(last.pre_inv, last.req.to_warehouse_id, last.req.product_id)

\* ----------------------------------------------------------------------
\* C13: in every reachable state every transaction of the log has the from/to
\* shape of its type: SALE has from set and to null; RESTOCK and ADJUSTMENT
\* have from null and to set; TRANSFER_OUT and TRANSFER_IN have both set; and
\* the type is one of the five values of the enum.
C13_TransactionShape ==
  \A i \in 1..Len(transactions) :
     LET t == transactions[i]
     IN /\ t.transaction_type \in TransactionType
        /\ t.transaction_type = "SALE" =>
              (t.from_warehouse_id # Null /\ t.to_warehouse_id = Null)
        /\ t.transaction_type \in {"RESTOCK", "ADJUSTMENT"} =>
              (t.from_warehouse_id = Null /\ t.to_warehouse_id # Null)
        /\ t.transaction_type \in {"TRANSFER_OUT", "TRANSFER_IN"} =>
              (t.from_warehouse_id # Null /\ t.to_warehouse_id # Null)

\* The log holds a sale, a restock and both rows of a transfer.
C13_Witness ==
  \A type \in {"SALE", "RESTOCK", "TRANSFER_OUT", "TRANSFER_IN"} :
     \E i \in 1..Len(transactions) : transactions[i].transaction_type = type

\* ----------------------------------------------------------------------
\* C14: the log is append-only and immutable: every step of every operation,
\* listing or error path leaves the log it found as a prefix of the log it
\* leaves.
C14_AppendOnlyLog ==
  [][/\ Len(transactions') >= Len(transactions)
     /\ SubSeq(transactions', 1, Len(transactions)) = transactions]_vars

\* A transfer failed after its TRANSFER_OUT row was appended.
C14_Witness ==
  /\ Returned("transfer") /\ last.resp.status = 500
  /\ "out" \in last.wrote
  /\ Len(transactions) = Len(last.pre_log) + 1

\* ----------------------------------------------------------------------
\* What the call of caller c has written to the row of (w, p) and not yet
\* logged.
PendingOf(c, w, p) ==
  LET r == req[c]
      done == loc[c].wrote
  IN IF r.product_id # p THEN 0
     ELSE CASE r.op = "sale" ->
                 IF r.warehouse_id = w /\ "ledger" \in done /\ "log" \notin done
                 THEN 0 - r.quantity ELSE 0
            [] r.op \in {"purchase", "adjustment"} ->
                 IF r.warehouse_id = w /\ "ledger" \in done /\ "log" \notin done
                 THEN r.quantity ELSE 0
            [] r.op = "transfer" ->
                 (IF r.to_warehouse_id = w /\ "dest" \in done /\ "in" \notin done
                  THEN r.quantity ELSE 0)
                 - (IF r.warehouse_id = w /\ "source" \in done /\ "out" \notin done
                    THEN r.quantity ELSE 0)
            [] OTHER -> 0

RECURSIVE Pending(_, _, _)
Pending(S, w, p) ==
  IF S = {} THEN 0
  ELSE LET c == CHOOSE x \in S : TRUE
       IN PendingOf(c, w, p) + Pending(S \ {c}, w, p)

\* C15 (as claimed): as long as no storage call has failed, whatever the
\* interleaving, the ledger agrees with the log: for every (W, P) the
\* quantity on hand is the sum of the RESTOCK, ADJUSTMENT and TRANSFER_IN
\* quantities with to = W minus the SALE and TRANSFER_OUT quantities with
\* from = W, the writes of calls still in flight counted in.
C15_LedgerMatchesLog ==
  ~storageFailed =>
     \A w \in WarehouseIds, p \in ProductIds :
        Qty(inventory_items, w, p)
           = TxNet(transactions, Len(transactions), w, p) + Pending(Callers, w, p)

\* ----------------------------------------------------------------------
\* The caller whose store call this step is, when the step is one.
Stepped(c) == pc[c] # "idle" /\ (pc'[c] # pc[c] \/ loc'[c] # loc[c])

\* C18: a ledger row, once created, exists in every later state, also at
\* quantity 0; a row is created only by the write of an incoming movement
\* (purchase, transfer destination, adjustment) and for its own pair; and a
\* sale or a transfer whose read finds no row of the source pair is rejected
\* without creating one.
C18_RowsPersist ==
  [][/\ DOMAIN inventory_items \subseteq DOMAIN inventory_items'
     /\ \A k \in DOMAIN inventory_items' \ DOMAIN inventory_items :
           \E c \in Callers :
              \/ /\ pc[c] \in {"purchase_write", "adjust_write"}
                 /\ k = <<req[c].warehouse_id, req[c].product_id>>
              \/ /\ pc[c] = "transfer_dest_write"
                 /\ k = <<req[c].to_warehouse_id, req[c].product_id>>
     /\ \A c \in Callers :
           (/\ pc[c] \in {"sale_select", "transfer_select"}
            /\ Stepped(c)
            /\ ~HasRow(inventory_items, req[c].warehouse_id, req[c].product_id))
           => /\ last'.resp.status \in {400, 500}
              /\ inventory_items' = inventory_items]_vars

\* A sale has emptied a row, which is still there.
C18_Witness ==
  /\ Returned("sale") /\ last.resp.status = 200
  /\ HasRow(inventory_items, last.req.warehouse_id, last.req.product_id)
  /\ inventory_items[<<last.req.warehouse_id, last.req.product_id>>] = 0
  /\ last.resp.new_stock_level = 0

\* ----------------------------------------------------------------------
\* C19: an adjustment of d > 0 of product P reads or creates the row of
\* (default warehouse, P), sets it to current + d (d when there was no row)
\* and appends exactly one transaction {ADJUSTMENT, from = null, to = default
\* warehouse, quantity d} with no created_by; no quantity decreases.
C19_AdjustmentEffect ==
  (Returned("adjustment") /\ last.resp.status = 200) =>
     LET r == last.req
         had == HasRow(last.pre_inv, MAIN_WAREHOUSE_ID, r.product_id)
         written == IF had THEN last.pre_inv[<<MAIN_WAREHOUSE_ID, r.product_id>>] + r.quantity
                    ELSE r.quantity
     IN /\ r.quantity > 0
        /\ inventory_items =
              (IF had THEN UpdateRow(last.pre_inv, MAIN_WAREHOUSE_ID, r.product_id, written)
               ELSE InsertRow(last.pre_inv, MAIN_WAREHOUSE_ID, r.product_id, written))
        /\ transactions =
              Append(last.pre_log,
                     [transaction_type |-> "ADJUSTMENT", product_id |-> r.product_id,
                      from_warehouse_id |-> Null, to_warehouse_id |-> MAIN_WAREHOUSE_ID,
                      quantity |-> r.quantity, unit_price |-> NoNum,
                      created_by |-> Null])
        /\ \A k \in DOMAIN last.pre_inv : inventory_items[k] >= last.pre_inv[k]

\* An adjustment added to a row that was there.
C19_Witness ==
  /\ Returned("adjustment") /\ last.resp.status = 200
  /\ HasRow(last.pre_inv, MAIN_WAREHOUSE_ID, last.req.product_id)
  /\ last.pre_inv[<<MAIN_WAREHOUSE_ID, last.req.product_id>>] > 0

\* ----------------------------------------------------------------------
\* The answer the sale checks give to request r on ledger inv, taken in the
\* order access, warehouse, product, margin, row, stock.
SaleVerdict(r, inv) ==
  IF r.user.role # "admin" /\ r.user.warehouse_id # r.warehouse_id
  THEN <<403, "You can only record sales for your own warehouse">>
  ELSE IF r.warehouse_id \notin WarehouseIds THEN <<404, "Warehouse not found">>
  ELSE IF r.product_id \notin ProductIds THEN <<404, "Product not found">>
  ELSE IF PricedBelowCost(r) THEN <<400, "Sale price cannot be below cost">>
  ELSE IF ~HasRow(inv, r.warehouse_id, r.product_id)
  THEN <<400, "Product not found in this warehouse">>
  ELSE IF inv[<<r.warehouse_id, r.product_id>>] < r.quantity
  THEN <<400, "Insufficient stock">>
  ELSE <<200, "">>

\* C20: the checks of a sale are applied in the order warehouse access (403),
\* warehouse existence (404), product existence (404), margin guard (400),
\* row existence (400), stock guard (400), and the first that fails decides
\* the answer.
C20_SaleCheckOrder ==
  (Returned("sale") /\ last.resp.status # 500) =>
     <<last.resp.status, last.resp.detail>> = SaleVerdict(last.req, last.pre_inv)

\* A below-cost sale of a product the warehouse does not stock was refused
\* for its price.
C20_Witness ==
  /\ Returned("sale")
  /\ PricedBelowCost(last.req)
  /\ last.req.warehouse_id \in WarehouseIds
  /\ ~HasRow(last.pre_inv, last.req.warehouse_id, last.req.product_id)
  /\ last.resp.detail = "Sale price cannot be below cost"

\* ----------------------------------------------------------------------
\* The rows of warehouse w that hold fewer than 5 units.
BelowFive(inv, w) ==
  {p \in ProductIds : HasRow(inv, w, p) /\ inv[<<w, p>>] < 5}

\* C16 (as claimed): a ledger row counts as low stock if and only if its
\* quantity_on_hand is below 5 (4 counts, 5 does not), in the listing of a
\* warehouse, whenever it runs its count, and in the listing of all
\* warehouses alike: unless a store call fails, the latter reports for each
\* warehouse of the caller the number of its rows below 5.
C16_LowStockThreshold ==
  /\ (/\ Returned("list_inventory") /\ last.resp.status = 200
      /\ ~(last.req.search # Null /\ Matching(last.req.search) = {}))
        => last.resp.low_stock_count
              = Cardinality(BelowFive(inventory_items, last.req.warehouse_id))
  /\ (Returned("list_all_inventory") /\ ~storageFailed)
        => \A w \in WarehouseIds :
              (last.req.user.role = "admin" \/ last.req.user.warehouse_id = w)
              => \E i \in 1..Len(last.resp.results) :
                    /\ last.resp.results[i].warehouse_id = w
                    /\ last.resp.results[i].low_stock_count
                          = Cardinality(BelowFive(inventory_items, w))

\* ----------------------------------------------------------------------
\* The step starts, continues or answers a listing.
ListingStep ==
  \/ last' # NoLast /\ last'.req.op \in ListingOps
  \/ \E c \in Callers :
        req'[c].op \in ListingOps /\ (pc'[c] # pc[c] \/ loc'[c] # loc[c])

TransferOutRow(r) ==
  Transaction("TRANSFER_OUT", r.product_id, r.warehouse_id, r.to_warehouse_id,
              r.quantity, NoNum, r.user.user_id)

\* The TRANSFER_IN row a transfer request appends.
TransferInRow(r) ==
  Transaction("TRANSFER_IN", r.product_id, r.warehouse_id, r.to_warehouse_id,
              r.quantity, NoNum, r.user.user_id)

\* The ledger after the writes named in done of transfer r, applied to pre.
LedgerAfter(pre, r, done) ==
  LET src == <<r.warehouse_id, r.product_id>>
      dst == <<r.to_warehouse_id, r.product_id>>
      dec == IF "source" \in done
             THEN [pre EXCEPT ![src] = pre[src] - r.quantity] ELSE pre
  IN IF "dest" \in done
     THEN [k \in DOMAIN dec \cup {dst} |->
             IF k = dst THEN Qty(dec, r.to_warehouse_id, r.product_id) + r.quantity
             ELSE dec[k]]
     ELSE dec

\* A transfer that failed after its source decrement.
FailedAfterDecrement ==
  /\ Returned("transfer")
  /\ "source" \in last.wrote
  /\ "in" \notin last.wrote

\* C21: a transfer whose store call fails after the source decrement answers
\* 500 and writes nothing to compensate: the source row stays decremented,
\* a destination write already made stays, a TRANSFER_OUT row already
\* appended stays, and nothing else has changed.
C21_NoCompensation ==
  FailedAfterDecrement =>
    /\ last.resp.status = 500
    /\ inventory_items = LedgerAfter(last.pre_inv, last.req, last.wrote)
    /\ transactions = IF "out" \in last.wrote
                      THEN Append(last.pre_log, TransferOutRow(last.req))
                      ELSE last.pre_log

C21_Witness ==
  /\ FailedAfterDecrement
  /\ {"dest", "out"} \subseteq last.wrote
  /\ last.req.warehouse_id # last.req.to_warehouse_id

\* ---------------------------------------------------------------- C22
TransferLabels ==
  {"transfer_select", "transfer_decrement", "transfer_dest_select",
   "transfer_dest_write", "transfer_out", "transfer_in"}

\* Stock of the product of transfer r in its two warehouses taken together.
PairTotal(inv, r) ==
  IF r.warehouse_id = r.to_warehouse_id
  THEN Qty(inv, r.warehouse_id, r.product_id)
  ELSE Qty(inv, r.warehouse_id, r.product_id)
         + Qty(inv, r.to_warehouse_id, r.product_id)

\* The log holds the rows of pre and then exactly rows.
Appended(pre, rows) == transactions = pre \o rows

\* The store of a transfer r that found ledger pre_inv and log pre_log is at
\* one of the five points of the order source decrement, destination write,
\* TRANSFER_OUT, TRANSFER_IN.
InTransferOrder(r, pre_inv, pre_log) ==
  \/ inventory_items = pre_inv /\ Appended(pre_log, <<>>)
  \/ /\ HasRow(pre_inv, r.warehouse_id, r.product_id)
     /\ \/ /\ inventory_items = LedgerAfter(pre_inv, r, {"source"})
           /\ Appended(pre_log, <<>>)
        \/ /\ inventory_items = LedgerAfter(pre_inv, r, {"source", "dest"})
           /\ \/ Appended(pre_log, <<>>)
              \/ Appended(pre_log, <<TransferOutRow(r)>>)
              \/ Appended(pre_log, <<TransferOutRow(r), TransferInRow(r)>>)

\* C22: with one call at a time, in every state of a transfer, in flight or
\* just answered, the store is at a point of the order source decrement,
\* destination write, TRANSFER_OUT append, TRANSFER_IN append: the stock of
\* source and destination together never exceeds what the transfer found,
\* and the TRANSFER_IN row is in the log only after the TRANSFER_OUT row and
\* both ledger writes.
C22_TransferWriteOrder ==
  /\ \A c \in Callers :
        pc[c] \in TransferLabels =>
          /\ InTransferOrder(req[c], loc[c].pre_inv, loc[c].pre_log)
          /\ PairTotal(inventory_items, req[c]) <= PairTotal(loc[c].pre_inv, req[c])
  /\ Returned("transfer") =>
        /\ InTransferOrder(last.req, last.pre_inv, last.pre_log)
        /\ PairTotal(inventory_items, last.req) <= PairTotal(last.pre_inv, last.req)

C22_Witness ==
  \E c \in Callers :
    /\ pc[c] = "transfer_in"
    /\ req[c].warehouse_id # req[c].to_warehouse_id
    /\ Appended(loc[c].pre_log, <<TransferOutRow(req[c])>>)
    /\ PairTotal(inventory_items, req[c]) = PairTotal(loc[c].pre_inv, req[c])

\* ---------------------------------------------------------------- C23
WriterOps == {"sale", "purchase", "transfer", "adjustment", "import"}

\* C23: every transaction of the log has a quantity that is an integer
\* greater than 0; a sale, purchase or transfer request with quantity <= 0
\* is refused by the step that receives it, which reads and writes nothing,
\* and so is a row of the reconciliation or import script; no call whose
\* quantity is <= 0 is ever at a store call.
C23_PositiveQuantities ==
  /\ \A i \in 1..Len(transactions) :
        transactions[i].quantity \in Nat \ {0}
  /\ \A c \in Callers :
        (pc[c] # "idle" /\ req[c].op \in WriterOps) => req[c].quantity > 0
  /\ (last.req.op \in WriterOps /\ last.req.quantity <= 0) =>
        /\ last.resp.status \in {403, 422}
        /\ last.resp.status = 403 => last.req.op = "transfer"
        /\ last.wrote = {}
        /\ Untouched

C23_Witness ==
  /\ Returned("purchase")
  /\ last.req.user.role = "admin"
  /\ last.req.warehouse_id \in WarehouseIds
  /\ last.req.product_id \in ProductIds
  /\ last.req.quantity = 0
  /\ last.resp.status = 422
  /\ Len(transactions) > 0

\* ---------------------------------------------------------------- C24
\* C24: the low_stock_count of a per-warehouse inventory listing is the
\* number of ledger rows of that warehouse with quantity below 5, whatever
\* the page, the page size and the search term of the request.
C24_LowStockCountGlobal ==
  (Returned("list_inventory") /\ last.resp.status = 200) =>
     last.resp.low_stock_count
        = Cardinality(BelowFive(inventory_items, last.req.warehouse_id))

\* ---------------------------------------------------------------- C25
\* Ids of the transactions of the log that request r asks for: warehouse
\* r.warehouse_id as source or destination, of the type and brand given.
History(r) ==
  { i \in 1..Len(transactions) :
      /\ \/ transactions[i].from_warehouse_id = r.warehouse_id
         \/ transactions[i].to_warehouse_id = r.warehouse_id
      /\ r.transaction_type # Null =>
            transactions[i].transaction_type = r.transaction_type
      /\ r.brand # Null => transactions[i].product_id \in Matching(r.brand) }

Min(a, b) == IF a < b THEN a ELSE b
Max(a, b) == IF a < b THEN b ELSE a

\* C25: a transaction listing of warehouse W answers with total the number
\* of transactions that have W as source or destination and pass the type
\* and brand filters, whatever the page and the page size, and with items
\* the page of them, newest first; so both rows of a transfer are in the
\* history of its source and in the history of its destination.
C25_TransactionHistory ==
  (Returned("list_transactions") /\ last.resp.status = 200) =>
     LET r == last.req
         items == last.resp.items
         offset == (r.page - 1) * r.page_size
     IN /\ last.resp.total = Cardinality(History(r))
        /\ Len(items) = Min(r.page_size, Max(0, Cardinality(History(r)) - offset))
        /\ \A k \in 1..Len(items) :
              /\ items[k].id \in History(r)
              /\ Cardinality({i \in History(r) : i > items[k].id}) = offset + k - 1
              /\ items[k].transaction_type = transactions[items[k].id].transaction_type
              /\ items[k].from_warehouse_id = transactions[items[k].id].from_warehouse_id
              /\ items[k].to_warehouse_id = transactions[items[k].id].to_warehouse_id
        /\ \A i \in 1..Len(transactions) :
              (/\ transactions[i].transaction_type \in {"TRANSFER_OUT", "TRANSFER_IN"}
               /\ r.warehouse_id \in {transactions[i].from_warehouse_id,
                                      transactions[i].to_warehouse_id}
               /\ r.transaction_type = Null /\ r.brand = Null)
              => i \in History(r)

\* The destination of a transfer lists both of its rows, the newer first.
C25_Witness ==
  /\ Returned("list_transactions") /\ last.resp.status = 200
  /\ last.req.page = 1 /\ last.req.page_size = 2
  /\ Len(last.resp.items) = 2
  /\ last.resp.items[1].transaction_type = "TRANSFER_IN"
  /\ last.resp.items[2].transaction_type = "TRANSFER_OUT"
  /\ last.resp.items[2].from_warehouse_id # last.req.warehouse_id
  /\ last.resp.items[2].to_warehouse_id = last.req.warehouse_id
  /\ last.resp.total > 2

\* ---------------------------------------------------------------- C26
\* The rows the ledger holds for (w, p).
RowsOf(w, p) == { k \in DOMAIN inventory_items : k[1] = w /\ k[2] = p }

\* Caller c has read that its pair has no row and is about to insert one.
AboutToInsert(c, w, p) ==
  /\ req[c].product_id = p
  /\ \/ /\ pc[c] \in {"purchase_write", "adjust_write"}
        /\ req[c].warehouse_id = w
        /\ loc[c].current_stock = NoNum
     \/ /\ pc[c] = "transfer_dest_write"
        /\ req[c].to_warehouse_id = w
        /\ loc[c].dest_stock = NoNum

\* C26: whatever the interleaving of purchases, transfers and adjustments,
\* the ledger holds at most one row for each (warehouse, product) pair.
C26_OneRowPerPair ==
  \A w \in WarehouseIds, p \in ProductIds : Cardinality(RowsOf(w, p)) <= 1

\* A caller that found no row for its pair is about to insert one although
\* another call has created the row in the meantime.
C26_Witness ==
  \E c \in Callers, w \in WarehouseIds, p \in ProductIds :
    /\ AboutToInsert(c, w, p)
    /\ Cardinality(RowsOf(w, p)) = 1
    /\ ~HasRow(loc[c].pre_inv, w, p)

\* ---------------------------------------------------------------- C27
\* C27: in every reachable state, whatever the interleaving of the calls,
\* for every warehouse and product the quantity the log records as leaving
\* the warehouse (SALE, TRANSFER_OUT) is at most the quantity it records as
\* entering it (RESTOCK, ADJUSTMENT, TRANSFER_IN).
C27_NoOverselling ==
  \A w \in WarehouseIds, p \in ProductIds :
     TxNet(transactions, Len(transactions), w, p) >= 0

\* ---------------------------------------------------------------- C28
\* C28: with one call at a time and no failed store call, once a call has
\* completed, for every warehouse and product the quantity on hand equals
\* the RESTOCK, ADJUSTMENT and TRANSFER_IN quantities with to = W minus the
\* SALE and TRANSFER_OUT quantities with from = W: the audit script's
\* "transaction net = DB quantity".
C28_SequentialAuditNet ==
  (Quiet /\ ~storageFailed) =>
     \A w \in WarehouseIds, p \in ProductIds :
        TxNet(transactions, Len(transactions), w, p) = Qty(inventory_items, w, p)

\* Two calls have completed, the latest a sale or a transfer that moved
\* stock out of a row that an earlier call had stocked.
C28_Witness ==
  /\ Quiet /\ ~storageFailed
  /\ nOps = MaxOps
  /\ last.req.op \in {"sale", "transfer"}
  /\ last.resp.status = 200
  /\ Len(transactions) >= 3

\* ---------------------------------------------------------------- C29
\* A transfer by the admin of a known product from a known warehouse to
\* itself, for no more than the row holds.
SameWarehouseTransfer ==
  /\ Returned("transfer")
  /\ last.req.to_warehouse_id = last.req.warehouse_id
  /\ require_admin(last.req.user)
  /\ last.req.warehouse_id \in WarehouseIds
  /\ last.req.product_id \in ProductIds
  /\ HasRow(last.pre_inv, last.req.warehouse_id, last.req.product_id)
  /\ last.req.quantity <= last.pre_inv[<<last.req.warehouse_id, last.req.product_id>>]

\* C29: a transfer whose source and destination are the same warehouse is
\* not refused; unless a store call fails, it answers 200, leaves the
\* quantity of the row as it was, and appends a TRANSFER_OUT and a
\* TRANSFER_IN row that both have that warehouse as source and destination.
C29_SameWarehouseTransfer ==
  SameWarehouseTransfer =>
    /\ last.resp.status \in {200, 500}
    /\ last.resp.status = 200 =>
          /\ inventory_items = last.pre_inv
          /\ Len(transactions) = Len(last.pre_log) + 2
          /\ SubSeq(transactions, 1, Len(last.pre_log)) = last.pre_log
          /\ LET out == transactions[Len(transactions) - 1]
                 in == transactions[Len(transactions)]
             IN /\ out.transaction_type = "TRANSFER_OUT"
                /\ in.transaction_type = "TRANSFER_IN"
                /\ \A t \in {out, in} :
                      /\ t.from_warehouse_id = last.req.warehouse_id
                      /\ t.to_warehouse_id = last.req.warehouse_id
                      /\ t.product_id = last.req.product_id
                      /\ t.quantity = last.req.quantity

C29_Witness ==
  /\ SameWarehouseTransfer
  /\ last.resp.status = 200
  /\ last.req.quantity = MaxQty
  /\ inventory_items[<<last.req.warehouse_id, last.req.product_id>>] = MaxQty

\* ---------------------------------------------------------------- C30
\* The user of the API is not an admin and has no warehouse assigned.
Unassigned(user) ==
  user \in UserContext /\ user.role # "admin" /\ user.warehouse_id = Null

WarehouseOps ==
  {"sale", "purchase", "transfer", "list_inventory", "list_transactions",
   "get_warehouse"}

\* C30: a user who is not an admin and has no warehouse is answered 403 by
\* every operation on a warehouse, whatever the warehouse id; no call of
\* such a user reaches a write to the ledger or the log; and the warehouse
\* listing answers such a user with an empty list.
C30_UnassignedPartner ==
  /\ \A c \in Callers :
        (pc[c] # "idle" /\ Unassigned(req[c].user)) =>
           /\ req[c].op \notin WarehouseOps
           /\ loc[c].wrote = {}
  /\ (last # NoLast /\ Unassigned(last.req.user)) =>
        /\ last.wrote = {}
        /\ Untouched
        /\ last.req.op \in WarehouseOps => last.resp.status = 403
        /\ last.req.op = "list_warehouses" =>
              (last.resp.status = 200 /\ last.resp.items = <<>>)

\* The unassigned partner is refused a sale that the stock would allow.
C30_Witness ==
  /\ Returned("sale")
  /\ Unassigned(last.req.user)
  /\ last.req.product_id \in ProductIds
  /\ HasRow(inventory_items, last.req.warehouse_id, last.req.product_id)
  /\ inventory_items[<<last.req.warehouse_id, last.req.product_id>>] >= last.req.quantity
  /\ last.resp.status = 403

====
